---- MODULE Spec2Model ----
(***************************************************************************)
(* Model of the class-booking backend (src/server.js): the POST /orders    *)
(* handler, run as one sequence of steps per request (one step per await), *)
(* the PUT /lessons/:id handler, and the MongoDB session / transaction     *)
(* interface the handlers call (snapshot isolation with write conflicts).  *)
(***************************************************************************)
EXTENDS Integers, Sequences, FiniteSets, TLC

\* ---- bounds ----
MaxSpaces == 2
MaxCart == 2

\* ---- the universe of inputs ----
Requests == {"r1", "r2"}
\* The lessons seeded in the store, keyed by the hex string of their _id.
Lessons == {"L1", "L2"}
\* the cart items that reference a lesson of the store
CartItems ==
  { [_id |-> "L1", subject |-> "math"],
    [_id |-> "L2", subject |-> "art"] }

RECURSIVE SeqsUpTo(_, _)
SeqsUpTo(S, n) ==
  IF n = 0 THEN {<<>>}
  ELSE LET shorter == SeqsUpTo(S, n - 1)
       IN shorter \cup {Append(s, x) : s \in {t \in shorter : Len(t) = n - 1}, x \in S}

\* "L3" is a well-formed id of no lesson, "zz" is not a well-formed id; each
\* comes alone in a cart and after an item that references a lesson.
OddCarts ==
  LET first == [_id |-> "L1", subject |-> "math"]
      odd == {[_id |-> "L3", subject |-> "yoga"], [_id |-> "zz", subject |-> "art"]}
  IN {<<x>> : x \in odd} \cup {<<first, x>> : x \in odd}

Carts == SeqsUpTo(CartItems, MaxCart) \cup OddCarts

\* req.body: a field that the client left out is not in the record's domain.
\* Every cart is tried under a complete name and phone; a missing or empty
\* name, phone or cart is tried with the other fields complete, and all
\* three missing at once.
Bodies ==
  LET ok == [name |-> "Ann", phone |-> "555", cart |-> <<[_id |-> "L1", subject |-> "math"]>>]
  IN {[name |-> "Ann", phone |-> "555", cart |-> c] : c \in Carts}
     \cup {[f \in DOMAIN ok \ {g} |-> ok[f]] : g \in DOMAIN ok}
     \cup {[ok EXCEPT !.name = ""], [ok EXCEPT !.phone = ""],
           [ok EXCEPT !.cart = <<>>], <<>>}

VARIABLES
  spaces,      \* committed lessons collection: spaces of each lesson
  orders,      \* committed orders collection, in insertion order
  spaces0,     \* the seeded spaces (never changes)
  pc,          \* where each POST /orders call stands
  body,        \* req.body of each call
  idx,         \* position of the for-loop in the cart
  session,     \* "none", "open" or "ended"
  ended,       \* number of endSession calls on the call's session
  txn,         \* the driver's transaction state of the session
  txActive,    \* the server holds an open transaction for the call
  snap,        \* the snapshot of spaces the server transaction reads
  stale,       \* lessons written by others since the snapshot was taken
  txWrites,    \* uncommitted decrements of the server transaction
  txInserted,  \* the order insert is pending in the server transaction
  response,    \* the response the caller got
  nresp,       \* number of responses sent
  named,       \* the subject named in an out-of-space response
  attempts,    \* the decrements issued, in order: cart position and outcome
  commitErr,   \* commitTransaction raised an error
  putResp,     \* response of the PUT call
  putReq,      \* the id and the patch of the PUT call
  price,       \* committed lessons collection: price of each lesson
  connected,   \* connectToMongoDB has assigned the collection handles
  early,       \* the call was handled before the handles were assigned
  seen,        \* what the last GET /lessons returned
  subject,     \* subject text of each lesson (never changes)
  location,    \* location text of each lesson (never changes)
  search       \* the GET /search call of a run: request, answer, lessons returned

vars == <<spaces, orders, spaces0, pc, body, idx, session, ended, txn,
          txActive, snap, stale, txWrites, txInserted, response, nresp,
          named, attempts, commitErr, putResp, putReq, price, connected,
          early, seen, subject, location, search>>

storeVars == <<spaces, orders>>
txVars == <<txActive, snap, stale, txWrites, txInserted>>
putVars == <<putResp, putReq>>
restVars == <<price, connected, seen, subject, location, search>>

NoWrites == [l \in Lessons |-> 0]

\* the price every lesson is seeded with
SeedPrice == 5

\* the subject and location the lessons are seeded with
SeedSubject == [l \in Lessons |-> IF l = "L1" THEN <<"M", "a", "t", "h">>
                                               ELSE <<"a", "r", "t">>]
SeedLocation == [l \in Lessons |-> <<"h", "a", "l", "l">>]

Startup ==
  /\ spaces \in [Lessons -> 0..MaxSpaces]
  /\ spaces0 = spaces
  /\ orders = <<>>
  /\ pc = [r \in Requests |-> "idle"]
  /\ body = [r \in Requests |-> <<>>]
  /\ idx = [r \in Requests |-> 0]
  /\ session = [r \in Requests |-> "none"]
  /\ ended = [r \in Requests |-> 0]
  /\ txn = [r \in Requests |-> "NO_TRANSACTION"]
  /\ txActive = [r \in Requests |-> FALSE]
  /\ snap = [r \in Requests |-> NoWrites]
  /\ stale = [r \in Requests |-> {}]
  /\ txWrites = [r \in Requests |-> NoWrites]
  /\ txInserted = [r \in Requests |-> FALSE]
  /\ response = [r \in Requests |-> "none"]
  /\ nresp = [r \in Requests |-> 0]
  /\ named = [r \in Requests |-> ""]
  /\ attempts = [r \in Requests |-> <<>>]
  /\ commitErr = [r \in Requests |-> FALSE]
  /\ putResp = "none"
  /\ putReq = <<>>
  /\ price = [l \in Lessons |-> SeedPrice]
  /\ connected = FALSE
  /\ early = [r \in Requests |-> FALSE]
  /\ seen = <<>>
  /\ search = <<>>

Init == Startup /\ subject = SeedSubject /\ location = SeedLocation


\* ---- helpers of the POST /orders handler ----

Has(b, f) == f \in DOMAIN b

\* the validation with the phone test left out
MissingDetailsNoPhone(b) ==
  \/ ~Has(b, "name") \/ b.name = ""
  \/ ~Has(b, "cart") \/ Len(b.cart) = 0

\* !name || !phone || !cart || cart.length === 0
MissingDetails(b) ==
  \/ ~Has(b, "name") \/ b.name = ""
  \/ ~Has(b, "phone") \/ b.phone = ""
  \/ ~Has(b, "cart") \/ Len(b.cart) = 0

\* new ObjectId(s) accepts a well-formed id string and throws on any other.
WellFormedIds == {"L1", "L2", "L3"}
ObjectIdValid(s) == s \in WellFormedIds

\* the order document with the entries of one lesson merged into one line
NewOrderMerged(r) ==
  LET c == body[r].cart
      ids == {c[i]._id : i \in 1..Len(c)}
      firsts == {i \in 1..Len(c) : \A j \in 1..(i - 1) : c[j]._id # c[i]._id}
      nth(k) == CHOOSE i \in firsts : Cardinality({j \in firsts : j <= i}) = k
  IN [id |-> r,
      name |-> body[r].name,
      phone |-> body[r].phone,
      lessonIDs |-> [k \in 1..Cardinality(ids) |-> c[nth(k)]._id],
      orderDetails |-> [k \in 1..Cardinality(ids) |->
                          [lessonId |-> c[nth(k)]._id, subject |-> c[nth(k)].subject,
                           quantity |-> Cardinality({j \in 1..Len(c) : c[j]._id = c[nth(k)]._id})]],
      totalSpaces |-> Len(c)]

\* the order document built from the request
NewOrder(r) ==
  LET c == body[r].cart
  IN [id |-> r,
      name |-> body[r].name,
      phone |-> body[r].phone,
      lessonIDs |-> [i \in 1..Len(c) |-> c[i]._id],
      orderDetails |-> [i \in 1..Len(c) |->
                          [lessonId |-> c[i]._id, subject |-> c[i].subject, quantity |-> 1]],
      totalSpaces |-> Len(c)]

\* res.status(..).json(..): one response leaves the handler
Respond(r, what) ==
  /\ response' = [response EXCEPT ![r] = what]
  /\ nresp' = [nresp EXCEPT ![r] = @ + 1]

\* What the caller sees when the async handler's promise rejects: Express 4
\* drops the rejection and never answers; Express 5 hands it to the error
\* middleware, which answers 500 with the text 'Something broke!'.
UnhandledOutcomes == {"none", "SomethingBroke"}

Escapes(r, out) ==
  IF out = "none" THEN UNCHANGED <<response, nresp>> ELSE Respond(r, out)

\* ---- the store's transaction interface ----

\* a transaction that reads the snapshot without its own decrements
ViewSnapshotOnly(r, l) == snap[r][l]

\* spaces of lesson l as the server transaction of r reads it
View(r, l) == snap[r][l] - txWrites[r][l]

\* the filter without its spaces guard: { _id: lessonId }
MatchesNoGuard(r, l) == l \in Lessons

\* filter { _id: lessonId, spaces: { $gt: 0 } } evaluated inside the transaction
Matches(r, l) == l \in Lessons /\ View(r, l) > 0

\* a write to a document that another open transaction has written, or that
\* was written after this transaction's snapshot, is a WriteConflict
WriteConflict(r, l) ==
  \/ l \in stale[r]
  \/ \E q \in Requests \ {r} : txWrites[q][l] > 0

\* what the updateOne of the cart item at idx, on lesson l, comes to
Attempt(r, l) ==
  [i |-> idx[r],
   out |-> IF ~Matches(r, l) THEN "nomatch"
           ELSE IF WriteConflict(r, l) THEN "error" ELSE "matched"]

\* the server transaction of r is gone, its writes discarded
DiscardTx(r) ==
  /\ txActive' = [txActive EXCEPT ![r] = FALSE]
  /\ snap' = [snap EXCEPT ![r] = NoWrites]
  /\ stale' = [stale EXCEPT ![r] = {}]
  /\ txWrites' = [txWrites EXCEPT ![r] = NoWrites]
  /\ txInserted' = [txInserted EXCEPT ![r] = FALSE]

\* the server transaction of r takes effect: its order and its decrements
\* become visible, and every other open transaction's snapshot is now older
\* than the lessons it wrote
ApplyTx(r) ==
  LET written == {l \in Lessons : txWrites[r][l] > 0}
  IN /\ spaces' = [l \in Lessons |-> spaces[l] - txWrites[r][l]]
     /\ orders' = IF txInserted[r] THEN Append(orders, NewOrder(r)) ELSE orders
     /\ txActive' = [txActive EXCEPT ![r] = FALSE]
     /\ snap' = [snap EXCEPT ![r] = NoWrites]
     /\ stale' = [q \in Requests |->
                    IF q = r THEN {}
                    ELSE IF txActive[q] THEN stale[q] \cup written ELSE stale[q]]
     /\ txWrites' = [txWrites EXCEPT ![r] = NoWrites]
     /\ txInserted' = [txInserted EXCEPT ![r] = FALSE]

\* ---- startup ----

\* lines 30-45: connectToMongoDB() is called and not awaited; the handles are
\* assigned when client.connect() has resolved
Connect ==
  /\ ~connected
  /\ connected' = TRUE
  /\ UNCHANGED <<storeVars, spaces0, pc, body, idx, session, ended, txn,
                 txVars, response, nresp, named, attempts, commitErr,
                 putVars, price, early, seen, subject, location, search>>

\* ---- POST /orders ----

\* the calls are named in the order in which they arrive
Earlier(q, r) == q = "r1" /\ r = "r2"

\* a handler whose collection handles are assigned whenever it runs
SubmitOrderNoRace(r, b) ==
  /\ pc[r] = "idle"
  /\ \A q \in Requests : Earlier(q, r) => pc[q] # "idle"
  /\ body' = [body EXCEPT ![r] = b]
  /\ IF MissingDetails(b)
     THEN /\ Respond(r, "InvalidInput")
          /\ pc' = [pc EXCEPT ![r] = "done"]
          /\ UNCHANGED <<session, txn>>
     ELSE IF \E i \in 1..Len(b.cart) : ~ObjectIdValid(b.cart[i]._id)
     THEN /\ \E out \in UnhandledOutcomes : Escapes(r, out)
          /\ pc' = [pc EXCEPT ![r] = "done"]
          /\ UNCHANGED <<session, txn>>
     ELSE /\ session' = [session EXCEPT ![r] = "open"]
          /\ txn' = [txn EXCEPT ![r] = "STARTING_TRANSACTION"]
          /\ pc' = [pc EXCEPT ![r] = "insert"]
          /\ UNCHANGED <<response, nresp>>
  /\ early' = [early EXCEPT ![r] = ~connected]
  /\ UNCHANGED <<storeVars, spaces0, idx, ended, txVars, named, attempts,
                 commitErr, putVars, restVars>>

\* lines 80-107: validation, ObjectId construction, startSession and
\* startTransaction run without an await, up to the insertOne call.  While
\* ordersCollection is still undefined that call throws a TypeError inside
\* the try block and control goes to catch.
SubmitOrder(r, b) ==
  /\ pc[r] = "idle"
  /\ \A q \in Requests : Earlier(q, r) => pc[q] # "idle"
  /\ body' = [body EXCEPT ![r] = b]
  /\ IF MissingDetails(b)
     THEN /\ Respond(r, "InvalidInput")
          /\ pc' = [pc EXCEPT ![r] = "done"]
          /\ UNCHANGED <<session, txn>>
     ELSE IF \E i \in 1..Len(b.cart) : ~ObjectIdValid(b.cart[i]._id)
     THEN /\ \E out \in UnhandledOutcomes : Escapes(r, out)
          /\ pc' = [pc EXCEPT ![r] = "done"]
          /\ UNCHANGED <<session, txn>>
     ELSE /\ session' = [session EXCEPT ![r] = "open"]
          /\ txn' = [txn EXCEPT ![r] = "STARTING_TRANSACTION"]
          /\ pc' = [pc EXCEPT ![r] = IF connected THEN "insert" ELSE "catch"]
          /\ UNCHANGED <<response, nresp>>
  /\ early' = [early EXCEPT ![r] = ~connected]
  /\ UNCHANGED <<storeVars, spaces0, idx, ended, txVars, named, attempts,
                 commitErr, putVars, restVars>>

\* line 107: ordersCollection.insertOne(newOrder, { session }) resolves; it
\* is the first operation of the transaction, so the server opens it here
InsertOne(r) ==
  /\ pc[r] = "insert"
  /\ txn' = [txn EXCEPT ![r] = "TRANSACTION_IN_PROGRESS"]
  /\ txActive' = [txActive EXCEPT ![r] = TRUE]
  /\ snap' = [snap EXCEPT ![r] = spaces]
  /\ stale' = [stale EXCEPT ![r] = {}]
  /\ txInserted' = [txInserted EXCEPT ![r] = TRUE]
  /\ idx' = [idx EXCEPT ![r] = 1]
  /\ pc' = [pc EXCEPT ![r] = "loop"]
  /\ UNCHANGED <<storeVars, spaces0, body, session, ended, txWrites, response,
                 nresp, named, attempts, commitErr, putVars, restVars, early>>

\* line 107 rejects (the store cannot be reached): control goes to catch
InsertOneFails(r) ==
  /\ pc[r] = "insert"
  /\ \E st \in {"STARTING_TRANSACTION", "TRANSACTION_IN_PROGRESS"} :
       txn' = [txn EXCEPT ![r] = st]
  /\ pc' = [pc EXCEPT ![r] = "catch"]
  /\ UNCHANGED <<storeVars, spaces0, body, idx, session, ended, txVars,
                 response, nresp, named, attempts, commitErr, putVars, restVars, early>>

\* the decrement issued without { session }: it runs outside the
\* transaction, on the committed collection
UpdateOneNoSession(r) ==
  /\ pc[r] = "loop"
  /\ LET item == body[r].cart[idx[r]]
         l == item._id
         found == l \in Lessons /\ spaces[l] > 0
     IN /\ found => \A q \in Requests : txWrites[q][l] = 0
        /\ attempts' = [attempts EXCEPT ![r] =
             Append(@, [i |-> idx[r], out |-> IF found THEN "matched" ELSE "nomatch"])]
        /\ IF found
           THEN /\ spaces' = [spaces EXCEPT ![l] = @ - 1]
                /\ stale' = [q \in Requests |->
                               IF txActive[q] THEN stale[q] \cup {l} ELSE stale[q]]
                /\ IF idx[r] = Len(body[r].cart)
                   THEN /\ pc' = [pc EXCEPT ![r] = "commit"]
                        /\ UNCHANGED idx
                   ELSE /\ idx' = [idx EXCEPT ![r] = @ + 1]
                        /\ UNCHANGED pc
           ELSE /\ pc' = [pc EXCEPT ![r] = "abort"]
                /\ UNCHANGED <<idx, spaces, stale>>
  /\ UNCHANGED <<orders, spaces0, body, session, ended, txn, txActive, snap,
                 txWrites, txInserted, response, nresp, named, commitErr,
                 putVars, restVars, early>>

\* a loop that goes on to the next cart item whatever updateOne matched
UpdateOneIgnoreResult(r) ==
  /\ pc[r] = "loop"
  /\ LET item == body[r].cart[idx[r]]
         l == item._id
     IN /\ attempts' = [attempts EXCEPT ![r] = Append(@, Attempt(r, l))]
        /\ IF Matches(r, l)
           THEN IF WriteConflict(r, l)
                THEN \* the server aborts the transaction and the await throws
                     /\ DiscardTx(r)
                     /\ pc' = [pc EXCEPT ![r] = "catch"]
                     /\ UNCHANGED idx
                ELSE /\ txWrites' = [txWrites EXCEPT ![r][l] = @ + 1]
                     /\ IF idx[r] = Len(body[r].cart)
                        THEN /\ pc' = [pc EXCEPT ![r] = "commit"]
                             /\ UNCHANGED idx
                        ELSE /\ idx' = [idx EXCEPT ![r] = @ + 1]
                             /\ UNCHANGED pc
                     /\ UNCHANGED <<txActive, snap, stale, txInserted>>
           ELSE \* matchedCount is not looked at
                /\ IF idx[r] = Len(body[r].cart)
                   THEN /\ pc' = [pc EXCEPT ![r] = "commit"]
                        /\ UNCHANGED idx
                   ELSE /\ idx' = [idx EXCEPT ![r] = @ + 1]
                        /\ UNCHANGED pc
                /\ UNCHANGED txVars
  /\ UNCHANGED <<storeVars, spaces0, body, session, ended, txn, response,
                 nresp, named, commitErr, putVars, restVars, early>>

\* lines 110-122: the guarded decrement of the cart item at idx resolves
UpdateOne(r) ==
  /\ pc[r] = "loop"
  /\ LET item == body[r].cart[idx[r]]
         l == item._id
     IN /\ attempts' = [attempts EXCEPT ![r] = Append(@, Attempt(r, l))]
        /\ IF Matches(r, l)
           THEN IF WriteConflict(r, l)
                THEN \* the server aborts the transaction and the await throws
                     /\ DiscardTx(r)
                     /\ pc' = [pc EXCEPT ![r] = "catch"]
                     /\ UNCHANGED idx
                ELSE /\ txWrites' = [txWrites EXCEPT ![r][l] = @ + 1]
                     /\ IF idx[r] = Len(body[r].cart)
                        THEN /\ pc' = [pc EXCEPT ![r] = "commit"]
                             /\ UNCHANGED idx
                        ELSE /\ idx' = [idx EXCEPT ![r] = @ + 1]
                             /\ UNCHANGED pc
                     /\ UNCHANGED <<txActive, snap, stale, txInserted>>
           ELSE \* matchedCount === 0
                /\ pc' = [pc EXCEPT ![r] = "abort"]
                /\ UNCHANGED <<idx, txVars>>
  /\ UNCHANGED <<storeVars, spaces0, body, session, ended, txn, response,
                 nresp, named, commitErr, putVars, restVars, early>>

\* line 112 rejects for a reason of the store's own
UpdateOneFails(r) ==
  /\ pc[r] = "loop"
  /\ attempts' = [attempts EXCEPT ![r] = Append(@, [i |-> idx[r], out |-> "error"])]
  /\ pc' = [pc EXCEPT ![r] = "catch"]
  /\ UNCHANGED <<storeVars, spaces0, body, idx, session, ended, txn, txVars,
                 response, nresp, named, commitErr, putVars, restVars, early>>

\* the early return of line 120 when endSession is not in a finally block
AbortOutOfStockNoFinally(r) ==
  /\ pc[r] = "abort"
  /\ txn' = [txn EXCEPT ![r] = "TRANSACTION_ABORTED"]
  /\ DiscardTx(r)
  /\ Respond(r, "OutOfStock")
  /\ named' = [named EXCEPT ![r] = body[r].cart[idx[r]].subject]
  /\ pc' = [pc EXCEPT ![r] = "done"]
  /\ UNCHANGED <<storeVars, spaces0, body, idx, session, ended, attempts,
                 commitErr, putVars, restVars, early>>

\* the 400 naming the first cart item instead of the failing one
AbortOutOfStockFirstSubject(r) ==
  /\ pc[r] = "abort"
  /\ txn' = [txn EXCEPT ![r] = "TRANSACTION_ABORTED"]
  /\ DiscardTx(r)
  /\ Respond(r, "OutOfStock")
  /\ named' = [named EXCEPT ![r] = body[r].cart[1].subject]
  /\ pc' = [pc EXCEPT ![r] = "finally"]
  /\ UNCHANGED <<storeVars, spaces0, body, idx, session, ended, attempts,
                 commitErr, putVars, restVars, early>>

\* lines 119-120: abortTransaction, then the 400 naming item.subject
AbortOutOfStock(r) ==
  /\ pc[r] = "abort"
  /\ txn' = [txn EXCEPT ![r] = "TRANSACTION_ABORTED"]
  /\ DiscardTx(r)
  /\ Respond(r, "OutOfStock")
  /\ named' = [named EXCEPT ![r] = body[r].cart[idx[r]].subject]
  /\ pc' = [pc EXCEPT ![r] = "finally"]
  /\ UNCHANGED <<storeVars, spaces0, body, idx, session, ended, attempts,
                 commitErr, putVars, restVars, early>>

\* lines 124-125: commitTransaction resolves, then the 201
CommitTransaction(r) ==
  /\ pc[r] = "commit"
  /\ txn' = [txn EXCEPT ![r] = "TRANSACTION_COMMITTED"]
  /\ ApplyTx(r)
  /\ Respond(r, "Created")
  /\ pc' = [pc EXCEPT ![r] = "finally"]
  /\ UNCHANGED <<spaces0, body, idx, session, ended, named, attempts,
                 commitErr, putVars, restVars, early>>

\* line 124 rejects.  The driver's state is committed from the moment the
\* command is sent; the server has either applied the transaction (the reply
\* was lost) or not.
CommitFails(r, applied) ==
  /\ pc[r] = "commit"
  /\ txn' = [txn EXCEPT ![r] = "TRANSACTION_COMMITTED"]
  /\ IF applied THEN ApplyTx(r) ELSE DiscardTx(r) /\ UNCHANGED storeVars
  /\ commitErr' = [commitErr EXCEPT ![r] = TRUE]
  /\ pc' = [pc EXCEPT ![r] = "catch"]
  /\ UNCHANGED <<spaces0, body, idx, session, ended, response, nresp, named,
                 attempts, putVars, restVars, early>>

\* lines 126-129: abortTransaction, then the 500.  abortTransaction ignores
\* the server's errors but throws when the session's transaction was already
\* committed; lines 128-129 are then skipped.
CatchAbort(r) ==
  /\ pc[r] = "catch"
  /\ IF txn[r] \in {"STARTING_TRANSACTION", "TRANSACTION_IN_PROGRESS"}
     THEN /\ txn' = [txn EXCEPT ![r] = "TRANSACTION_ABORTED"]
          /\ DiscardTx(r)
          /\ Respond(r, "StoreUnavailable")
          /\ pc' = [pc EXCEPT ![r] = "finally"]
     ELSE /\ pc' = [pc EXCEPT ![r] = "finally_rethrow"]
          /\ UNCHANGED <<txn, txVars, response, nresp>>
  /\ UNCHANGED <<storeVars, spaces0, body, idx, session, ended, named,
                 attempts, commitErr, putVars, restVars, early>>

\* lines 130-132: finally { await session.endSession() }; an error thrown in
\* the catch block leaves the handler after it
EndSession(r) ==
  /\ pc[r] \in {"finally", "finally_rethrow"}
  /\ session' = [session EXCEPT ![r] = "ended"]
  /\ ended' = [ended EXCEPT ![r] = @ + 1]
  /\ IF pc[r] = "finally_rethrow"
     THEN \E out \in UnhandledOutcomes : Escapes(r, out)
     ELSE UNCHANGED <<response, nresp>>
  /\ pc' = [pc EXCEPT ![r] = "done"]
  /\ UNCHANGED <<storeVars, spaces0, body, idx, txn, txVars, named, attempts,
                 commitErr, putVars, restVars, early>>

\* ---- PUT /lessons/:id ----

PutIds == {"L1", "L2", "L3", "zz"}
PutValues == (0 - 1)..MaxSpaces
PutPrices == {0}

\* req.body of a PUT: spaces, price or both
PutPatches ==
  {[spaces |-> v] : v \in PutValues}
  \cup {[price |-> p] : p \in PutPrices}
  \cup {[spaces |-> 0, price |-> p] : p \in PutPrices}

\* the PUT calls tried: every patch on every lesson, and one patch on the id
\* of no lesson and on the malformed id
PutCalls ==
  {[id |-> l, patch |-> u] : l \in Lessons, u \in PutPatches}
  \cup {[id |-> i, patch |-> [spaces |-> 1]] : i \in PutIds \ Lessons}

\* the value of field f of a lesson after $set: patch
Patched(patch, f, old) == IF f \in DOMAIN patch THEN patch[f] ELSE old

\* a PUT that answers without looking at matchedCount
UpdateLessonNoCheck(id, patch) ==
  /\ putResp = "none"
  /\ putReq' = [id |-> id, patch |-> patch]
  /\ IF ~ObjectIdValid(id)
     THEN /\ putResp' = "InvalidInput"
          /\ UNCHANGED <<spaces, price, stale>>
     ELSE IF ~connected
     THEN \* lessonsCollection is undefined: TypeError inside the try block
          /\ putResp' = "StoreUnavailable"
          /\ UNCHANGED <<spaces, price, stale>>
     ELSE IF id \notin Lessons
     THEN /\ putResp' = "Updated"
          /\ UNCHANGED <<spaces, price, stale>>
     ELSE /\ \A q \in Requests : txWrites[q][id] = 0
          /\ spaces' = [spaces EXCEPT ![id] = Patched(patch, "spaces", @)]
          /\ price' = [price EXCEPT ![id] = Patched(patch, "price", @)]
          /\ stale' = [q \in Requests |->
                         IF txActive[q] /\ (spaces'[id] # spaces[id] \/ price'[id] # price[id])
                         THEN stale[q] \cup {id} ELSE stale[q]]
          /\ putResp' = "Updated"
  /\ UNCHANGED <<orders, spaces0, pc, body, idx, session, ended, txn,
                 txActive, snap, txWrites, txInserted, response, nresp,
                 named, attempts, commitErr, connected, early, seen,
                 subject, location, search>>

\* a PUT that replaces the document by the request body instead of $set
UpdateLessonReplace(id, patch) ==
  /\ putResp = "none"
  /\ putReq' = [id |-> id, patch |-> patch]
  /\ IF ~ObjectIdValid(id)
     THEN /\ putResp' = "InvalidInput"
          /\ UNCHANGED <<spaces, price, stale>>
     ELSE IF ~connected
     THEN \* lessonsCollection is undefined: TypeError inside the try block
          /\ putResp' = "StoreUnavailable"
          /\ UNCHANGED <<spaces, price, stale>>
     ELSE IF id \notin Lessons
     THEN /\ putResp' = "NotFound"
          /\ UNCHANGED <<spaces, price, stale>>
     ELSE /\ \A q \in Requests : txWrites[q][id] = 0
          /\ spaces' = [spaces EXCEPT ![id] = Patched(patch, "spaces", 0)]
          /\ price' = [price EXCEPT ![id] = Patched(patch, "price", 0)]
          /\ stale' = [q \in Requests |->
                         IF txActive[q] /\ (spaces'[id] # spaces[id] \/ price'[id] # price[id])
                         THEN stale[q] \cup {id} ELSE stale[q]]
          /\ putResp' = "Updated"
  /\ UNCHANGED <<orders, spaces0, pc, body, idx, session, ended, txn,
                 txActive, snap, txWrites, txInserted, response, nresp,
                 named, attempts, commitErr, connected, early, seen,
                 subject, location, search>>

\* lines 138-160, for the one PUT call of a run.  A write outside a
\* transaction waits while an open transaction holds a write on the lesson.
UpdateLesson(id, patch) ==
  /\ putResp = "none"
  /\ putReq' = [id |-> id, patch |-> patch]
  /\ IF ~ObjectIdValid(id)
     THEN /\ putResp' = "InvalidInput"
          /\ UNCHANGED <<spaces, price, stale>>
     ELSE IF ~connected
     THEN \* lessonsCollection is undefined: TypeError inside the try block
          /\ putResp' = "StoreUnavailable"
          /\ UNCHANGED <<spaces, price, stale>>
     ELSE IF id \notin Lessons
     THEN /\ putResp' = "NotFound"
          /\ UNCHANGED <<spaces, price, stale>>
     ELSE /\ \A q \in Requests : txWrites[q][id] = 0
          /\ spaces' = [spaces EXCEPT ![id] = Patched(patch, "spaces", @)]
          /\ price' = [price EXCEPT ![id] = Patched(patch, "price", @)]
          /\ stale' = [q \in Requests |->
                         IF txActive[q] /\ (spaces'[id] # spaces[id] \/ price'[id] # price[id])
                         THEN stale[q] \cup {id} ELSE stale[q]]
          /\ putResp' = "Updated"
  /\ UNCHANGED <<orders, spaces0, pc, body, idx, session, ended, txn,
                 txActive, snap, txWrites, txInserted, response, nresp,
                 named, attempts, commitErr, connected, early, seen,
                 subject, location, search>>

\* ---- GET /lessons ----

\* some open transaction holds writes that are not committed
InFlight ==
  \E q \in Requests :
    txActive[q] /\ (txInserted[q] \/ \E l \in Lessons : txWrites[q][l] > 0)

\* a find({}) that returns the lessons with the uncommitted decrements of
\* open transactions applied
ListLessonsDirty ==
  /\ connected
  /\ seen' = [spaces |-> [l \in Lessons |->
                           spaces[l] - (txWrites["r1"][l] + txWrites["r2"][l])],
              orders |-> Len(orders), inflight |-> InFlight]
  /\ UNCHANGED <<storeVars, spaces0, pc, body, idx, session, ended, txn,
                 txVars, response, nresp, named, attempts, commitErr,
                 putVars, price, connected, early, subject, location, search>>

\* lines 68-76: find({}) outside any transaction returns the committed
\* lessons; the number of committed orders at that moment is kept with it
ListLessons ==
  /\ connected
  /\ seen' = [spaces |-> spaces, orders |-> Len(orders), inflight |-> InFlight]
  /\ UNCHANGED <<storeVars, spaces0, pc, body, idx, session, ended, txn,
                 txVars, response, nresp, named, attempts, commitErr,
                 putVars, price, connected, early, subject, location, search>>

\* ---- GET /search ----

\* texts are sequences of characters
Subjects == {<<"M", "a", "t", "h">>, <<"a", "r", "t">>}
Locations == {<<"h", "a", "l", "l">>, <<"B", "A", "T", "H">>}
\* req.query.q; the empty text stands for an absent q
Queries == {<<>>, <<"m", "a", "t", "h">>, <<"A", "T", "H">>, <<"2">>}
\* req.query.sortAttribute and req.query.sortOrder; "" stands for absent
SortAttributes == {"", "spaces"}
SortOrders == {"", "desc"}

Digits == <<"0", "1", "2", "3", "4", "5", "6", "7", "8", "9">>
IsDigit(c) == \E i \in 1..Len(Digits) : Digits[i] = c
DigitValue(c) == (CHOOSE i \in 1..Len(Digits) : Digits[i] = c) - 1

\* $options: 'i' compares letters without case
Lower(c) ==
  CASE c = "A" -> "a" [] c = "B" -> "b" [] c = "H" -> "h"
    [] c = "M" -> "m" [] c = "T" -> "t" [] OTHER -> c

\* the character codes a binary comparison of strings goes by
Code(c) ==
  CASE c = "0" -> 48 [] c = "2" -> 50
    [] c = "A" -> 65 [] c = "B" -> 66 [] c = "H" -> 72 [] c = "M" -> 77
    [] c = "T" -> 84 [] c = "a" -> 97 [] c = "h" -> 104 [] c = "l" -> 108
    [] c = "m" -> 109 [] c = "r" -> 114 [] c = "t" -> 116

\* { $regex: q, $options: 'i' } for a q of letters and digits: q occurs in
\* the text, case aside
Contains(text, q) ==
  \E i \in 0..(Len(text) - Len(q)) :
    \A j \in 1..Len(q) : Lower(text[i + j]) = Lower(q[j])

\* the number of leading digits of q
RECURSIVE LeadingDigits(_)
LeadingDigits(q) ==
  IF q = <<>> \/ ~IsDigit(Head(q)) THEN 0 ELSE 1 + LeadingDigits(Tail(q))

\* the value of the first n characters of q, all digits
RECURSIVE DigitsValue(_, _)
DigitsValue(q, n) ==
  IF n = 0 THEN 0 ELSE 10 * DigitsValue(q, n - 1) + DigitValue(q[n])

\* parseFloat(query) || 0 and parseInt(query) || 0 for a q of letters and
\* digits: NaN, for a q that does not start with a digit, gives 0
NumberOrZero(q) ==
  IF LeadingDigits(q) = 0 THEN 0 ELSE DigitsValue(q, LeadingDigits(q))

\* the document of a lesson
Doc(l) ==
  [_id |-> l, subject |-> subject[l], location |-> location[l],
   price |-> price[l], spaces |-> spaces[l]]

\* searchFilter: the $or of the four conditions
SearchFilter(d, q) ==
  \/ Contains(d.subject, q)
  \/ Contains(d.location, q)
  \/ d.price = NumberOrZero(q)
  \/ d.spaces = NumberOrZero(q)

RECURSIVE TextLess(_, _)
TextLess(a, b) ==
  IF b = <<>> THEN FALSE
  ELSE IF a = <<>> THEN TRUE
  ELSE IF Code(Head(a)) # Code(Head(b)) THEN Code(Head(a)) < Code(Head(b))
  ELSE TextLess(Tail(a), Tail(b))

\* d comes strictly before e by the sort field
Before(d, e, attr) ==
  IF attr = "subject" THEN TextLess(d.subject, e.subject)
  ELSE d[attr] < e[attr]

\* .sort({ [sortAttribute]: sortOrder }): the orders of the documents the
\* sort may return; documents with equal keys come in either order
Sorted(docs, attr, order) ==
  {s \in [1..Cardinality(docs) -> docs] :
     /\ \A i, j \in DOMAIN s : i # j => s[i] # s[j]
     /\ \A i, j \in DOMAIN s :
          i < j => IF order = 1 THEN ~Before(s[j], s[i], attr)
                                ELSE ~Before(s[i], s[j], attr)}

\* part_000 lines 164-192, for the one search of a run
Search(q, attr, ord) ==
  LET sortAttribute == IF attr = "" THEN "subject" ELSE attr
      sortOrder == IF ord = "desc" THEN 0 - 1 ELSE 1
      req == [q |-> q, sortAttribute |-> attr, sortOrder |-> ord]
  IN /\ search = <<>>
     /\ IF q = <<>>
        THEN search' = [req |-> req, resp |-> "Redirect", lessons |-> <<>>]
        ELSE IF ~connected
        THEN \* lessonsCollection is undefined: TypeError inside the try block
             search' = [req |-> req, resp |-> "StoreUnavailable", lessons |-> <<>>]
        ELSE \E res \in Sorted({Doc(l) : l \in {m \in Lessons : SearchFilter(Doc(m), q)}},
                               sortAttribute, sortOrder) :
               search' = [req |-> req, resp |-> "Ok", lessons |-> res]
     /\ UNCHANGED <<storeVars, spaces0, pc, body, idx, session, ended, txn,
                    txVars, response, nresp, named, attempts, commitErr,
                    putVars, price, connected, early, seen, subject, location>>

\* ---- specifications ----

OrderStep(r) ==
  \/ \E b \in Bodies : SubmitOrder(r, b)
  \/ InsertOne(r)
  \/ UpdateOne(r)
  \/ AbortOutOfStock(r)
  \/ CommitTransaction(r)
  \/ CatchAbort(r)
  \/ EndSession(r)

StoreFault(r) ==
  \/ InsertOneFails(r)
  \/ UpdateOneFails(r)
  \/ \E applied \in BOOLEAN : CommitFails(r, applied)

\* the order handler alone, on a store that never fails of its own
NextNoFault ==
  \/ Connect
  \/ \E r \in Requests : OrderStep(r)
SpecNoFault == Init /\ [][NextNoFault]_vars

\* the order handler alone, no other writer
NextOrders ==
  \/ Connect
  \/ \E r \in Requests : OrderStep(r) \/ StoreFault(r)
SpecOrders == Init /\ [][NextOrders]_vars

\* both handlers, on a store that never fails of its own
Next ==
  \/ Connect
  \/ \E r \in Requests : OrderStep(r)
  \/ \E c \in PutCalls : UpdateLesson(c.id, c.patch)
Spec == Init /\ [][Next]_vars

\* one order call and the PUT call
NextPut ==
  \/ Connect
  \/ OrderStep("r1") \/ StoreFault("r1")
  \/ \E c \in PutCalls : UpdateLesson(c.id, c.patch)
SpecPut == Init /\ [][NextPut]_vars

\* the order handler and a reader of the lessons
NextRead ==
  \/ Connect
  \/ \E r \in Requests : OrderStep(r)
  \/ ListLessons
SpecRead == Init /\ [][NextRead]_vars

\* the steps a call takes after its first: an awaited store operation
\* settles, resolved or rejected, and the handler runs on to the next await
Progress(r) ==
  \/ InsertOne(r) \/ UpdateOne(r) \/ AbortOutOfStock(r) \/ CommitTransaction(r)
  \/ CatchAbort(r) \/ EndSession(r) \/ StoreFault(r)

\* the search over lessons of any subject and location, with the PUT call
InitSearch ==
  /\ Startup
  /\ subject \in [Lessons -> Subjects]
  /\ location \in [Lessons -> Locations]
NextSearch ==
  \/ Connect
  \/ \E c \in PutCalls : UpdateLesson(c.id, c.patch)
  \/ \E q \in Queries, a \in SortAttributes, o \in SortOrders : Search(q, a, o)
SpecSearch == InitSearch /\ [][NextSearch]_vars

\* ---- the properties ----

CartOf(r) == IF Has(body[r], "cart") THEN body[r].cart ELSE <<>>
Count(l, c) == Cardinality({i \in 1..Len(c) : c[i]._id = l})
Recorded(r) == \E k \in 1..Len(orders) : orders[k].id = r
Done(r) == pc[r] = "done"

\* C1: with POST /orders calls as the only writers, the committed spaces of
\* every lesson is at least 0 in every reachable state.
C1_SpacesNeverNegative == \A l \in Lessons : spaces[l] >= 0

\* two calls went for the last space of a lesson and the lesson ended at 0
C1_Witness ==
  \E l \in Lessons :
    /\ spaces0[l] = 1 /\ spaces[l] = 0
    /\ \A r \in Requests : Done(r) /\ Len(attempts[r]) = 1 /\ CartOf(r)[1]._id = l

\* C2: every change of the committed store is the whole effect of one call
\* that reached its commit:
\* its order appended and spaces lowered by one per cart entry; no call is
\* recorded twice, and a finished call that is not recorded left no pending
\* write behind.
C2_AllOrNothing ==
  /\ [][\/ orders' = orders /\ spaces' = spaces
        \/ \E r \in Requests :
             /\ pc[r] = "commit" /\ ~Recorded(r)
             /\ orders' = Append(orders, NewOrder(r))
             /\ spaces' = [l \in Lessons |-> spaces[l] - Count(l, CartOf(r))]]_vars
  /\ [](\A r \in Requests :
          Done(r) => ~txInserted[r] /\ \A l \in Lessons : txWrites[r][l] = 0)

\* item 2 of 2 found no space: no order, and the lesson of item 1, which had
\* a space, is where it was
C2_Witness ==
  /\ Done("r1") /\ response["r1"] = "OutOfStock" /\ pc["r2"] = "idle"
  /\ Len(CartOf("r1")) = 2 /\ Len(attempts["r1"]) = 2
  /\ attempts["r1"][1].out = "matched"
  /\ orders = <<>> /\ spaces = spaces0

\* C3: two calls handled after startup, each with the one-item cart for the
\* same lesson with one space, end with one order created, one OutOfStock
\* and the lesson at 0.
C3_OneCreatedOneOutOfStock ==
  \A l \in Lessons :
    ( /\ spaces0[l] = 1
      /\ \A r \in Requests :
           Done(r) /\ Len(CartOf(r)) = 1 /\ CartOf(r)[1]._id = l
                   /\ ~MissingDetails(body[r]) /\ ~early[r] )
    => /\ \E r \in Requests :
            /\ response[r] = "Created"
            /\ \A q \in Requests \ {r} : response[q] = "OutOfStock"
       /\ spaces[l] = 0

\* C4: under POST /orders and PUT /lessons/:id calls together, no lesson
\* has spaces below 0.
C4_NoLessonBelowZero == {l \in Lessons : spaces[l] < 0} = {}


\* a name, a phone or a cart that is missing or empty
Incomplete(b) ==
  \/ "name" \notin DOMAIN b \/ "phone" \notin DOMAIN b \/ "cart" \notin DOMAIN b
  \/ b.name = "" \/ b.phone = "" \/ b.cart = <<>>

\* a complete body whose cart holds an id that is no well-formed ObjectId
Malformed(b) ==
  ~Incomplete(b) /\ \E i \in 1..Len(b.cart) : b.cart[i]._id \notin {"L1", "L2", "L3"}

\* C5: a call with a missing or empty name, phone or cart is answered
\* InvalidInput in its first step, which leaves orders and lessons alone,
\* and it never has a session or a transaction.
C5_InvalidInputBeforeSession ==
  /\ [](\A r \in Requests :
          (pc[r] # "idle" /\ Incomplete(body[r])) =>
             /\ Done(r) /\ response[r] = "InvalidInput" /\ nresp[r] = 1
             /\ session[r] = "none" /\ txn[r] = "NO_TRANSACTION"
             /\ ~txActive[r] /\ ~txInserted[r] /\ ~Recorded(r))
  /\ [][\A r \in Requests :
          (pc[r] = "idle" /\ pc'[r] # "idle" /\ Incomplete(body'[r])) =>
             orders' = orders /\ spaces' = spaces]_vars

\* a call with an empty cart was turned down while the other call is running
C5_Witness ==
  /\ Done("r1") /\ response["r1"] = "InvalidInput"
  /\ Has(body["r1"], "cart") /\ body["r1"].cart = <<>>
  /\ session["r2"] = "open"

\* C6: a call whose cart holds a malformed lesson id is answered
\* InvalidInput and performs no store operation.
C6_MalformedIdIsInvalidInput ==
  \A r \in Requests :
    (pc[r] # "idle" /\ Malformed(body[r])) =>
       /\ response[r] = "InvalidInput"
       /\ session[r] = "none" /\ ~txActive[r] /\ ~Recorded(r)

\* C7: a call that started its transaction and did not commit ends with the
\* transaction aborted and exactly one response, which is OutOfStock or
\* StoreUnavailable, whichever operation raised the error.
C7_AbortedAndAnswered ==
  \A r \in Requests :
    (Done(r) /\ session[r] # "none" /\ response[r] # "Created") =>
       /\ txn[r] = "TRANSACTION_ABORTED"
       /\ nresp[r] = 1
       /\ response[r] \in {"OutOfStock", "StoreUnavailable"}

\* C8: a session is ended at most once and only after its transaction was
\* committed or aborted; a call with an open session always has a next step
\* to take, and when it has finished its session is ended and the server
\* holds no transaction for it.
C8_SessionEnded ==
  \A r \in Requests :
    /\ ended[r] = (IF session[r] = "ended" THEN 1 ELSE 0)
    /\ session[r] = "ended" =>
         /\ txn[r] \in {"TRANSACTION_COMMITTED", "TRANSACTION_ABORTED"}
         /\ ~txActive[r]
    /\ session[r] = "open" => ~Done(r) /\ ENABLED Progress(r)
    /\ (pc[r] \notin {"idle", "done"}) => session[r] = "open"
    /\ Done(r) => session[r] \in {"none", "ended"}

\* the three exits were taken: one call succeeded or was out of stock, the
\* other hit a store error, and both sessions are ended
C8_Witness ==
  /\ \A r \in Requests : Done(r) /\ session[r] = "ended"
  /\ response["r1"] = "OutOfStock"
  /\ response["r2"] = "StoreUnavailable"

\* C9: a call that is answered StoreUnavailable, and likewise a call whose
\* commitTransaction raised an error, has no order recorded once it is over.
C9_StoreUnavailableLeavesNothing ==
  \A r \in Requests :
    (response[r] = "StoreUnavailable" \/ (commitErr[r] /\ Done(r))) => ~Recorded(r)

\* C10: the decrements are issued for cart positions 1, 2, ... in turn, each
\* once; only the last one issued may have failed; a decrement that matched
\* nothing is on a missing lesson or one the transaction sees at 0 spaces;
\* the OutOfStock response comes after such a decrement and names the
\* subject of its cart item.
C10_InOrderFirstFailureNamed ==
  /\ [](\A r \in Requests :
          LET a == attempts[r]
          IN /\ Len(a) <= Len(CartOf(r))
             /\ \A k \in 1..Len(a) :
                  /\ a[k].i = k
                  /\ k < Len(a) => a[k].out = "matched"
             /\ response[r] = "OutOfStock" =>
                  /\ Len(a) >= 1 /\ a[Len(a)].out = "nomatch"
                  /\ named[r] = CartOf(r)[Len(a)].subject
             /\ response[r] = "Created" =>
                  /\ Len(a) = Len(CartOf(r)) /\ a[Len(a)].out = "matched")
  /\ [][\A r \in Requests :
          (Len(attempts'[r]) > Len(attempts[r])
             /\ attempts'[r][Len(attempts'[r])].out = "nomatch") =>
            LET l == body[r].cart[Len(attempts'[r])]._id
            IN l \notin Lessons \/ snap[r][l] - txWrites[r][l] = 0]_vars

\* the second of two items failed and its subject, not the first one's, is
\* the one named
C10_Witness ==
  \E r \in Requests :
    /\ response[r] = "OutOfStock" /\ Len(attempts[r]) = 2
    /\ CartOf(r)[1].subject # CartOf(r)[2].subject
    /\ named[r] = CartOf(r)[2].subject


\* C11: a call answered with success has exactly one order in the
\* collection and a call answered with a failure has none; an order, once
\* in the collection, stays there unchanged and in its place.
C11_OneOrderPerSuccess ==
  /\ [](\A r \in Requests :
          /\ response[r] = "Created" =>
               Cardinality({k \in 1..Len(orders) : orders[k].id = r}) = 1
          /\ response[r] \in {"InvalidInput", "OutOfStock", "StoreUnavailable",
                              "SomethingBroke"} => ~Recorded(r))
  /\ [][/\ Len(orders') >= Len(orders)
        /\ \A k \in 1..Len(orders) : orders'[k] = orders[k]]_vars

\* C12: the order stored for a call has one orderDetails entry per cart
\* entry, the i-th with the id and subject of the i-th cart item and
\* quantity 1, lessonIDs likewise, and totalSpaces is the cart's length; a
\* call answered with success has its order stored.
C12_OrderMirrorsCart ==
  /\ \A k \in 1..Len(orders) :
       LET o == orders[k]
           c == CartOf(o.id)
       IN /\ Len(o.orderDetails) = Len(c) /\ Len(o.lessonIDs) = Len(c)
          /\ o.totalSpaces = Len(c)
          /\ o.name = body[o.id].name /\ o.phone = body[o.id].phone
          /\ \A i \in 1..Len(c) :
               /\ o.lessonIDs[i] = c[i]._id
               /\ o.orderDetails[i].lessonId = c[i]._id
               /\ o.orderDetails[i].subject = c[i].subject
               /\ o.orderDetails[i].quantity = 1
  /\ \A r \in Requests : response[r] = "Created" => Recorded(r)

\* an order of two entries, L1 then L2, is stored and answered with success
C12_Witness ==
  \E k \in 1..Len(orders) :
    /\ response[orders[k].id] = "Created" /\ orders[k].totalSpaces = 2
    /\ orders[k].orderDetails[1].lessonId = "L1"
    /\ orders[k].orderDetails[2].lessonId = "L2"


\* the spaces of lesson l taken by the first n committed orders
RECURSIVE Booked(_, _)
Booked(l, n) ==
  IF n = 0 THEN 0 ELSE Booked(l, n - 1) + Count(l, CartOf(orders[n].id))

\* C13: what GET /lessons returned is, for every lesson, the seeded spaces
\* less the entries of the orders committed when it read: never a decrement
\* of an order that was still in flight, aborted later or not yet stored.
C13_ReaderSeesNoPartialOrder ==
  seen # <<>> =>
    /\ seen.orders <= Len(orders)
    /\ \A l \in Lessons : seen.spaces[l] = spaces0[l] - Booked(l, seen.orders)

\* a read was taken while a transaction held uncommitted decrements
C13_Witness ==
  /\ seen # <<>> /\ seen.inflight
  /\ \E r \in Requests : \E l \in Lessons : txActive[r] /\ txWrites[r][l] > 0


\* C14: the PUT call on an id that is no lesson's leaves the spaces and price
\* of every lesson and the orders as they were, and, when the id is well
\* formed and the store is connected, is answered NotFound.
C14_AbsentIdNotFound ==
  [][(putResp = "none" /\ putResp' # "none" /\ putReq'.id \notin Lessons) =>
       /\ spaces' = spaces /\ price' = price /\ orders' = orders
       /\ (connected /\ ObjectIdValid(putReq'.id)) => putResp' = "NotFound"]_vars

\* a PUT on the absent id L3 was answered NotFound with an order in the store
C14_Witness ==
  putResp = "NotFound" /\ putReq.id = "L3" /\ Len(orders) > 0

\* C18: the PUT call answered Updated sets each field named in the patch on
\* the addressed lesson and changes no other field of it, no other lesson
\* and no order, and opens, joins or ends no session or transaction.
C18_PatchOnlyNamedFields ==
  [][(putResp = "none" /\ putResp' = "Updated") =>
       LET id == putReq'.id
           patch == putReq'.patch
       IN /\ \A l \in Lessons :
               /\ spaces'[l] = IF l = id /\ "spaces" \in DOMAIN patch
                               THEN patch.spaces ELSE spaces[l]
               /\ price'[l] = IF l = id /\ "price" \in DOMAIN patch
                              THEN patch.price ELSE price[l]
          /\ orders' = orders
          /\ UNCHANGED <<session, ended, txn, txActive, snap, txWrites, txInserted>>]_vars

\* a PUT that names only spaces changed the spaces of its lesson and kept
\* the price, with an order in the store
C18_Witness ==
  /\ putResp = "Updated" /\ DOMAIN putReq.patch = {"spaces"}
  /\ spaces[putReq.id] = putReq.patch.spaces
  /\ spaces[putReq.id] # spaces0[putReq.id] - Booked(putReq.id, Len(orders))
  /\ price[putReq.id] = SeedPrice
  /\ Len(orders) > 0


\* C15: a search whose query holds no digit returns only lessons whose
\* subject or location contains the query, case aside, whatever their price
\* and spaces are; with no sort field and direction given they come sorted
\* by subject ascending.
C15_SearchTextOnly ==
  (/\ search # <<>> /\ search.resp = "Ok"
   /\ \A i \in 1..Len(search.req.q) : ~IsDigit(search.req.q[i])) =>
    /\ \A i \in 1..Len(search.lessons) :
         \/ Contains(search.lessons[i].subject, search.req.q)
         \/ Contains(search.lessons[i].location, search.req.q)
    /\ (search.req.sortAttribute = "" /\ search.req.sortOrder = "") =>
         \A i, j \in 1..Len(search.lessons) :
           i < j => ~TextLess(search.lessons[j].subject, search.lessons[i].subject)


\* the cart of call r is one or more entries, all for lesson l
AllFor(r, l) ==
  /\ Len(CartOf(r)) > 0
  /\ \A i \in 1..Len(CartOf(r)) : CartOf(r)[i]._id = l

\* C16: for a call whose cart is k entries for one lesson L: it gets to
\* commit only if L had at least k spaces when its decrements ran and is
\* rejected for lack of space only if L had fewer; it ends with another
\* answer only when its details were incomplete or the store raised an
\* error; the step that answers Created lowers the spaces of L by exactly k,
\* and the step that answers OutOfStock leaves the spaces of every lesson as
\* they were.
C16_EntriesAreUnits ==
  /\ [](\A r \in Requests : \A l \in Lessons :
          AllFor(r, l) =>
            /\ pc[r] = "commit" =>
                 snap[r][l] >= Len(CartOf(r)) /\ txWrites[r][l] = Len(CartOf(r))
            /\ pc[r] = "abort" => snap[r][l] < Len(CartOf(r))
            /\ (Done(r) /\ response[r] \notin {"Created", "OutOfStock"}) =>
                 \/ Incomplete(body[r]) \/ early[r] \/ commitErr[r]
                 \/ attempts[r] = <<>>
                 \/ attempts[r][Len(attempts[r])].out = "error")
  /\ [][\A r \in Requests : \A l \in Lessons :
          (AllFor(r, l) /\ response[r] = "none") =>
            /\ response'[r] = "Created" =>
                 /\ spaces[l] >= Len(CartOf(r))
                 /\ spaces'[l] = spaces[l] - Len(CartOf(r))
            /\ response'[r] = "OutOfStock" => spaces' = spaces]_vars

\* one call booked both spaces of a lesson with two entries, and another
\* call with two entries for a lesson of one space was rejected after its
\* first decrement had matched, the lesson still at one space
C16_Witness ==
  \E r, q \in Requests : \E l, m \in Lessons :
    /\ AllFor(r, l) /\ Len(CartOf(r)) = 2 /\ response[r] = "Created"
    /\ spaces0[l] = 2 /\ spaces[l] = 0
    /\ AllFor(q, m) /\ Len(CartOf(q)) = 2 /\ response[q] = "OutOfStock"
    /\ Len(attempts[q]) = 2 /\ attempts[q][1].out = "matched"
    /\ attempts[q][2].out = "nomatch"
    /\ spaces0[m] = 1 /\ spaces[m] = 1


\* the line items of the first n committed orders that reference lesson l
RECURSIVE LineItems(_, _)
LineItems(l, n) ==
  IF n = 0 THEN 0
  ELSE LineItems(l, n - 1)
       + Cardinality({i \in 1..Len(orders[n].orderDetails) :
                        orders[n].orderDetails[i].lessonId = l})

\* C17: with POST /orders calls as the only writers, for every lesson the
\* seeded spaces less the committed spaces is the number of line items of
\* the committed orders that reference it, and every line item of a
\* committed order references a lesson of the store.
C17_SeatConservation ==
  /\ \A l \in Lessons : spaces0[l] - spaces[l] = LineItems(l, Len(orders))
  /\ \A k \in 1..Len(orders) : \A i \in 1..Len(orders[k].orderDetails) :
       orders[k].orderDetails[i].lessonId \in Lessons

\* two committed orders hold three line items between them, two of them for
\* one lesson that is now two spaces down
C17_Witness ==
  /\ Len(orders) = 2
  /\ Len(orders[1].orderDetails) + Len(orders[2].orderDetails) = 3
  /\ \E l \in Lessons : LineItems(l, 2) = 2 /\ spaces[l] = spaces0[l] - 2


\* C19: a POST /orders call with complete details and well-formed ids that
\* is handled before the collection handles are assigned never has an order
\* stored nor a server transaction open, no step of it changes a lesson or
\* the orders, and once it has finished it was answered StoreUnavailable,
\* once, and its session was ended, once.
C19_EarlyCallStoreUnavailable ==
  /\ [](\A r \in Requests :
          (early[r] /\ ~Incomplete(body[r]) /\ ~Malformed(body[r])) =>
            /\ ~Recorded(r) /\ ~txActive[r] /\ ~txInserted[r]
            /\ \A l \in Lessons : txWrites[r][l] = 0
            /\ Done(r) =>
                 /\ response[r] = "StoreUnavailable" /\ nresp[r] = 1
                 /\ session[r] = "ended" /\ ended[r] = 1)
  /\ [][\A r \in Requests :
          (early'[r] /\ pc'[r] # pc[r]) => spaces' = spaces /\ orders' = orders]_vars

\* a call finished with StoreUnavailable and its session ended while the
\* store was still not connected
C19_Witness ==
  \E r \in Requests :
    /\ early[r] /\ ~connected /\ Done(r)
    /\ response[r] = "StoreUnavailable" /\ session[r] = "ended"

====
